---- MODULE Spec2Model ----
(***************************************************************************)
(* Model of mapio.cloud.Cloud: a point cloud holding three numpy arrays    *)
(* (_lon, _lat, _data).  An array is a shape plus its elements in          *)
(* row-major order; the object is its attribute dictionary.  Every method  *)
(* call is one action; the history variables op, args, ret and pre record  *)
(* the last call, its arguments, its outcome and the attributes before it. *)
(***************************************************************************)
EXTENDS Integers, Sequences, FiniteSets, TLC

VARIABLES self, op, args, ret, pre

vars == <<self, op, args, ret, pre>>

\* ---- bounds of the model ----
MaxLen == 2      \* largest number of points in an array
MaxCoord == 2    \* coordinates (degrees) are 0..MaxCoord
MaxVal == 1      \* data values are 0..MaxVal

Coord == 0..MaxCoord
DataVals == 0..MaxVal

\* ---- values passed to the methods ----
None == "None"

Arr(shape, vals) == [kind |-> "ndarray", shape |-> shape, vals |-> vals]

\* the string of the setData test, a value without a .shape attribute
Fred == [kind |-> "str", shape |-> <<>>, vals |-> <<>>]

HasShape(x) == x.kind = "ndarray"

RECURSIVE Size(_)
Size(shape) == IF shape = <<>> THEN 1 ELSE Head(shape) * Size(Tail(shape))

\* 1D arrays of 0..MaxLen points and 2D arrays of one row, one point shorter
Shapes == {<<n>> : n \in 0..MaxLen} \cup {<<1, n>> : n \in 1..(MaxLen - 1)}

ArraysOver(S) == UNION {{Arr(s, v) : v \in [1..Size(s) -> S]} : s \in Shapes}

CoordArrays == ArraysOver(Coord)
DataArrays == ArraysOver(DataVals)
\* what setData is called with: an array or the string
DataInputs == DataArrays \cup {Fred}
Methods == {"nearest", "linear"}
GridMethods == {"linear", "nearest", "cubic"}
GeoDicts == {"geodict"}
\* boxes (xmin, xmax, ymin, ymax) with edges on -1..MaxCoord, wide enough to
\* have a coordinate strictly between xmin and xmax and between ymin and ymax
BoxCoord == -1..MaxCoord
Boxes == {b \in BoxCoord \X BoxCoord \X BoxCoord \X BoxCoord :
            b[2] - b[1] >= 2 /\ b[4] - b[3] >= 2}

\* ---- outcomes ----
Ok(v) == [kind |-> "ok", exc |-> "none", value |-> v]
Raise(e) == [kind |-> "raise", exc |-> e, value |-> None]

NoObject == <<>>
Exists == DOMAIN self # {}

Init ==
    /\ self = NoObject
    /\ op = "none"
    /\ args = <<>>
    /\ ret = Ok(None)
    /\ pre = NoObject

\* ---- Cloud.__init__ ----
\* the condition of line 17, on three arrays
\* variant: the data array's shape is never compared
InitOutcome_NoDataCheck(lo, la, da) ==
    IF lo.shape # la.shape THEN "DataSetException" ELSE "ok"

InitOutcome(lo, la, da) ==
    IF lo.shape # la.shape \/ lo.shape # da.shape \/ la.shape # da.shape
    THEN "DataSetException"
    ELSE "ok"

\* one constructor call per object: a failed call leaves no object behind
Construct ==
    /\ op = "none"
    /\ \E lo \in CoordArrays, la \in CoordArrays, da \in DataArrays :
        LET out == InitOutcome(lo, la, da) IN
        /\ op' = "__init__"
        /\ args' = [lon |-> lo, lat |-> la, data |-> da]
        /\ pre' = self
        /\ IF out = "ok"
           THEN /\ self' = [a \in {"_lon", "_lat", "_data"} |->
                              IF a = "_lon" THEN lo ELSE IF a = "_lat" THEN la ELSE da]
                /\ ret' = Ok(None)
           ELSE /\ self' = self
                /\ ret' = Raise(out)

\* ---- Cloud.getData ----
getData ==
    /\ Exists
    /\ op' = "getData"
    /\ args' = <<>>
    /\ pre' = self
    /\ ret' = Ok(self["_data"])
    /\ self' = self

\* ---- Cloud.setData ----
\* variant: the number of elements is compared instead of the shape
SetDataOutcome_SizeOnly(obj, x) ==
    IF ~HasShape(x) THEN "AttributeError"
    ELSE IF Size(x.shape) # Size(obj["_lon"].shape) THEN "DataSetException"
    ELSE "ok"

SetDataOutcome(obj, x) ==
    IF ~HasShape(x) THEN "AttributeError"
    ELSE IF x.shape # obj["_lon"].shape THEN "DataSetException"
    ELSE "ok"

\* variant: the assignment happens before the shape check
SetDataAttrs_AssignFirst(obj, x) == [obj EXCEPT !["_data"] = x]

SetDataAttrs(obj, x) ==
    IF SetDataOutcome(obj, x) = "ok" THEN [obj EXCEPT !["_data"] = x] ELSE obj

setData ==
    /\ Exists
    /\ \E x \in DataInputs :
        LET out == SetDataOutcome(self, x) IN
        /\ op' = "setData"
        /\ args' = [data |-> x]
        /\ pre' = self
        /\ self' = SetDataAttrs(self, x)
        /\ ret' = IF out = "ok" THEN Ok(None) ELSE Raise(out)

\* ---- Cloud.getBounds ----
SeqMin(s) == CHOOSE m \in {s[i] : i \in 1..Len(s)} : \A i \in 1..Len(s) : m <= s[i]
SeqMax(s) == CHOOSE m \in {s[i] : i \in 1..Len(s)} : \A i \in 1..Len(s) : m >= s[i]

\* variant: the tuple is (lon min, lat min, lon max, lat max)
GetBoundsResult_Swapped(obj) ==
    IF Len(obj["_lon"].vals) = 0 THEN Raise("ValueError")
    ELSE Ok(<<SeqMin(obj["_lon"].vals), SeqMin(obj["_lat"].vals),
              SeqMax(obj["_lon"].vals), SeqMax(obj["_lat"].vals)>>)

\* ndarray.min() / .max() of a zero-size array raise ValueError
GetBoundsResult(obj) ==
    IF Len(obj["_lon"].vals) = 0 THEN Raise("ValueError")
    ELSE Ok(<<SeqMin(obj["_lon"].vals), SeqMax(obj["_lon"].vals),
              SeqMin(obj["_lat"].vals), SeqMax(obj["_lat"].vals)>>)

getBounds ==
    /\ Exists
    /\ op' = "getBounds"
    /\ args' = <<>>
    /\ pre' = self
    /\ ret' = GetBoundsResult(self)
    /\ self' = self

\* ---- Cloud.trim ----
\* variant: the upper latitude bound is not tested
Inside_NoLatMax(obj, bounds) ==
    [i \in 1..Len(obj["_lon"].vals) |->
        /\ obj["_lon"].vals[i] > bounds[1]
        /\ obj["_lon"].vals[i] < bounds[2]
        /\ obj["_lat"].vals[i] > bounds[3]]

\* variant: the comparisons include the boundary
Inside_Inclusive(obj, bounds) ==
    [i \in 1..Len(obj["_lon"].vals) |->
        /\ obj["_lon"].vals[i] >= bounds[1]
        /\ obj["_lon"].vals[i] <= bounds[2]
        /\ obj["_lat"].vals[i] >= bounds[3]
        /\ obj["_lat"].vals[i] <= bounds[4]]

\* the boolean mask of line 35, one flag per element
Inside(obj, bounds) ==
    [i \in 1..Len(obj["_lon"].vals) |->
        /\ obj["_lon"].vals[i] > bounds[1]
        /\ obj["_lon"].vals[i] < bounds[2]
        /\ obj["_lat"].vals[i] > bounds[3]
        /\ obj["_lat"].vals[i] < bounds[4]]

RECURSIVE Compress(_, _, _)
Compress(vals, mask, i) ==
    IF i > Len(vals) THEN <<>>
    ELSE (IF i \in DOMAIN mask /\ mask[i] THEN <<vals[i]>> ELSE <<>>)
         \o Compress(vals, mask, i + 1)

\* a[mask] with a boolean mask: the selected elements as a 1D array
BoolIndex(a, mask) ==
    LET kept == Compress(a.vals, mask, 1) IN Arr(<<Len(kept)>>, kept)

\* variant: the data array is not masked
TrimAttrs_KeepData(obj, bounds) ==
    LET inside == Inside(obj, bounds) IN
    [a \in {"_lon", "_lat", "_data"} |->
        IF a = "_data" THEN obj[a] ELSE BoolIndex(obj[a], inside)]

TrimAttrs(obj, bounds) ==
    LET inside == Inside(obj, bounds) IN
    [a \in {"_lon", "_lat", "_data"} |-> BoolIndex(obj[a], inside)]

trim ==
    /\ Exists
    /\ \E b \in Boxes :
        /\ op' = "trim"
        /\ args' = [bounds |-> b]
        /\ pre' = self
        /\ self' = TrimAttrs(self, b)
        /\ ret' = Ok(None)

\* ---- Cloud.getValue ----
\* sin^2(k/2 degrees) * 10^8 and cos(k degrees) * 10^5
SinSqHalf(k) ==
    CASE k = 0 -> 0 [] k = 1 -> 7615 [] k = 2 -> 30459 [] k = 3 -> 68523
      [] k = 4 -> 121797 [] k = 5 -> 190265 [] OTHER -> 273905
Cos(k) ==
    CASE k = 0 -> 100000 [] k = 1 -> 99985 [] k = 2 -> 99939 [] k = 3 -> 99863
      [] k = 4 -> 99756 [] k = 5 -> 99619 [] OTHER -> 99452

Abs(x) == IF x < 0 THEN -x ELSE x

\* geodetic.distance: the haversine of the central angle, which grows with
\* the great-circle distance
Distance(lon1, lat1, lon2, lat2) ==
    SinSqHalf(Abs(lat1 - lat2)) * 100000
      + ((Cos(lat1) * Cos(lat2) * SinSqHalf(Abs(lon1 - lon2))) \div 100000)

\* ndarray.argmin(): the first index of the minimum
ArgMin(d) == CHOOSE i \in 1..Len(d) :
    /\ \A j \in 1..Len(d) : d[i] <= d[j]
    /\ \A j \in 1..(i - 1) : d[j] > d[i]

\* variant: an unsupported method falls through and returns None
GetValueResult_FallThrough(obj, qlat, qlon, method) ==
    IF method = "nearest" THEN Raise("AttributeError") ELSE Ok(None)

GetValueResult(obj, qlat, qlon, method) ==
    IF method = "nearest"
    THEN IF ~({"_lons", "_lats"} \subseteq DOMAIN obj) THEN Raise("AttributeError")
         ELSE IF Len(obj["_lons"].vals) = 0 THEN Raise("ValueError")
         ELSE LET d == [i \in 1..Len(obj["_lons"].vals) |->
                          Distance(qlon, qlat, obj["_lons"].vals[i], obj["_lats"].vals[i])]
              IN Ok(obj["_data"].vals[ArgMin(d)])
    ELSE Raise("NotImplementedError")

getValue ==
    /\ Exists
    /\ \E qlat \in Coord, qlon \in Coord, m \in Methods :
        /\ op' = "getValue"
        /\ args' = [lat |-> qlat, lon |-> qlon, method |-> m]
        /\ pre' = self
        /\ ret' = GetValueResult(self, qlat, qlon, m)
        /\ self' = self

\* ---- Cloud.interpolateToGrid ----
interpolateToGrid ==
    /\ Exists
    /\ \E g \in GeoDicts, m \in GridMethods :
        /\ op' = "interpolateToGrid"
        /\ args' = [geodict |-> g, method |-> m]
        /\ pre' = self
        /\ ret' = Raise("NotImplementedError")
        /\ self' = self

Next ==
    \/ Construct
    \/ getData
    \/ setData
    \/ getBounds
    \/ trim
    \/ getValue
    \/ interpolateToGrid

Spec == Init /\ [][Next]_vars

(***************************************************************************)
(* Properties                                                              *)
(***************************************************************************)
SameShape(obj) ==
    /\ obj["_lon"].shape = obj["_lat"].shape
    /\ obj["_lon"].shape = obj["_data"].shape

NPoints(obj) == Len(obj["_lon"].vals)

\* the stored points as (lon, lat, data) triples, in index order
Triples(obj) ==
    [i \in 1..NPoints(obj) |->
        <<obj["_lon"].vals[i], obj["_lat"].vals[i], obj["_data"].vals[i]>>]

StrictlyInside(t, b) == t[1] > b[1] /\ t[1] < b[2] /\ t[2] > b[3] /\ t[2] < b[4]
StrictlyOutside(t, b) == t[1] < b[1] \/ t[1] > b[2] \/ t[2] < b[3] \/ t[2] > b[4]

ArgsAreArrays == HasShape(args.lon) /\ HasShape(args.lat) /\ HasShape(args.data)
ArgShapesEqual ==
    /\ args.lon.shape = args.lat.shape
    /\ args.lon.shape = args.data.shape
    /\ args.lat.shape = args.data.shape

\* C1: constructing a Cloud from three arrays succeeds exactly when the three
\* shapes are equal; on success the Cloud holds exactly those arrays, on a
\* mismatch the call fails and no Cloud exists.
C1_ConstructIffSameShape ==
    (op = "__init__" /\ ArgsAreArrays) =>
        /\ (ret.kind = "ok") <=> ArgShapesEqual
        /\ ArgShapesEqual =>
              /\ DOMAIN self = {"_lon", "_lat", "_data"}
              /\ self["_lon"] = args.lon
              /\ self["_lat"] = args.lat
              /\ self["_data"] = args.data
        /\ ~ArgShapesEqual => (ret.kind = "raise" /\ self = NoObject)

\* a construction rejected only because the data array's shape differs
C1_Witness ==
    /\ op = "__init__"
    /\ ArgsAreArrays
    /\ args.lon.shape = args.lat.shape
    /\ args.lon.shape # args.data.shape
    /\ Size(args.lon.shape) = Size(args.data.shape)
    /\ ret.kind = "raise"
    /\ self = NoObject

\* C2: setData(x) succeeds exactly when x is an array whose shape equals the
\* shape of the stored lon/lat arrays; otherwise (a string included) it fails.
C2_SetDataIffSameShape ==
    op = "setData" =>
        ((ret.kind = "ok") <=>
            /\ HasShape(args.data)
            /\ args.data.shape = pre["_lon"].shape
            /\ args.data.shape = pre["_lat"].shape)

\* a setData rejected for an array with as many elements but another shape
C2_Witness ==
    /\ op = "setData"
    /\ HasShape(args.data)
    /\ Size(args.data.shape) = Size(pre["_lon"].shape)
    /\ args.data.shape # pre["_lon"].shape
    /\ ret.kind = "raise"

\* C3: on a non-empty Cloud getValue(lat, lon, 'nearest') returns data[i] for
\* the first index i of minimal geodesic distance to (lat, lon), and does not
\* raise.
C3_NearestReturnsValue ==
    (op = "getValue" /\ args.method = "nearest" /\ NPoints(pre) > 0) =>
        /\ ret.kind = "ok"
        /\ ret.value = pre["_data"].vals[ArgMin(
              [i \in 1..NPoints(pre) |->
                  Distance(args.lon, args.lat, pre["_lon"].vals[i], pre["_lat"].vals[i])])]

\* C4: after trim(bounds) no stored point lies strictly outside the box, and
\* every point of the Cloud before trim strictly inside the box is still stored.
C4_TrimOutsideRemovedInsideKept ==
    op = "trim" =>
        /\ SameShape(self)
        /\ \A i \in 1..NPoints(self) : ~StrictlyOutside(Triples(self)[i], args.bounds)
        /\ \A i \in 1..NPoints(pre) :
              StrictlyInside(Triples(pre)[i], args.bounds) =>
                  \E j \in 1..NPoints(self) : Triples(self)[j] = Triples(pre)[i]

\* a trim that removed a point strictly outside and kept one strictly inside
C4_Witness ==
    /\ op = "trim"
    /\ NPoints(self) >= 1
    /\ NPoints(self) < NPoints(pre)
    /\ \E i \in 1..NPoints(pre) : StrictlyOutside(Triples(pre)[i], args.bounds)

\* C5: in every state of a constructed Cloud, whatever calls were made, the
\* stored lon, lat and data arrays have identical shape.
C5_ShapesAgree ==
    Exists => (SameShape(self) /\ \A a \in DOMAIN self : HasShape(self[a]))

\* a 2D Cloud that trim flattened to fewer points
C5_Witness ==
    /\ op = "trim"
    /\ Len(pre["_lon"].shape) = 2
    /\ Len(self["_lon"].shape) = 1
    /\ NPoints(self) < NPoints(pre)

\* C6: every rejected construction or setData call raises DataSetException and
\* no other error kind, also for a non-array input.
C6_OnlyDataSetException ==
    (op \in {"__init__", "setData"} /\ ret.kind = "raise") =>
        ret.exc = "DataSetException"

\* C7 as stated: in every state getBounds returns (min lon, max lon, min lat,
\* max lat) over the stored points and leaves the Cloud unchanged.
C7_GetBoundsAlways ==
    op = "getBounds" =>
        /\ ret.kind = "ok"
        /\ self = pre
        /\ ret.value = <<SeqMin(self["_lon"].vals), SeqMax(self["_lon"].vals),
                         SeqMin(self["_lat"].vals), SeqMax(self["_lat"].vals)>>

\* C7 amended: getBounds leaves the Cloud unchanged, and when at least one
\* point is stored it returns (min lon, max lon, min lat, max lat) over the
\* stored points.
C7_GetBoundsNonEmpty ==
    op = "getBounds" =>
        /\ self = pre
        /\ NPoints(self) > 0 =>
              /\ ret.kind = "ok"
              /\ Len(ret.value) = 4
              /\ \A i \in 1..NPoints(self) :
                    /\ ret.value[1] <= self["_lon"].vals[i]
                    /\ ret.value[2] >= self["_lon"].vals[i]
                    /\ ret.value[3] <= self["_lat"].vals[i]
                    /\ ret.value[4] >= self["_lat"].vals[i]
              /\ \E i \in 1..NPoints(self) : ret.value[1] = self["_lon"].vals[i]
              /\ \E i \in 1..NPoints(self) : ret.value[2] = self["_lon"].vals[i]
              /\ \E i \in 1..NPoints(self) : ret.value[3] = self["_lat"].vals[i]
              /\ \E i \in 1..NPoints(self) : ret.value[4] = self["_lat"].vals[i]

\* getBounds on a Cloud whose four extremes are pairwise distinguishable
C7_Witness ==
    /\ op = "getBounds"
    /\ ret.kind = "ok"
    /\ NPoints(self) >= 2
    /\ ret.value[1] # ret.value[2]
    /\ ret.value[3] # ret.value[4]
    /\ ret.value[2] # ret.value[3]

\* C8: getValue with a method other than 'nearest' and interpolateToGrid with
\* any arguments raise NotImplementedError and leave lon, lat and data as
\* they were.
C8_NotImplemented ==
    /\ (op = "getValue" /\ args.method # "nearest") =>
          (ret = Raise("NotImplementedError") /\ self = pre)
    /\ op = "interpolateToGrid" =>
          (ret = Raise("NotImplementedError") /\ self = pre)

\* getValue called with method 'linear' on a non-empty Cloud
C8_Witness ==
    /\ op = "getValue"
    /\ args.method = "linear"
    /\ NPoints(self) > 0
    /\ ret.kind = "raise"

\* C9: a rejected setData leaves lon, lat and data as before; an accepted
\* setData(x) leaves lon and lat unchanged and stores x; getData returns the
\* stored data array without changing anything.
C9_SetDataFrame ==
    /\ (op = "setData" /\ ret.kind = "raise") => self = pre
    /\ (op = "setData" /\ ret.kind = "ok") =>
          /\ self["_lon"] = pre["_lon"]
          /\ self["_lat"] = pre["_lat"]
          /\ self["_data"] = args.data
    /\ op = "getData" => (ret = Ok(pre["_data"]) /\ self = pre)

\* a rejected setData whose argument differs from the data held
C9_Witness ==
    /\ op = "setData"
    /\ ret.kind = "raise"
    /\ args.data # pre["_data"]
    /\ NPoints(pre) > 0

\* C10: after trim(bounds) on a Cloud of 1D arrays the stored triples are the
\* subsequence, in the original order, of the triples strictly inside the box;
\* points on the boundary are removed.
C10_TrimIsSubsequence ==
    (op = "trim" /\ Len(pre["_lon"].shape) = 1) =>
        /\ SameShape(self)
        /\ self["_lon"].shape = <<NPoints(self)>>
        /\ Len(self["_data"].vals) = NPoints(self)
        /\ Len(self["_lat"].vals) = NPoints(self)
        /\ LET b == args.bounds
               In(t) == StrictlyInside(t, b)
           IN Triples(self) = SelectSeq(Triples(pre), In)

\* a 1D trim that removed a boundary point and kept an interior one
C10_Witness ==
    /\ op = "trim"
    /\ Len(pre["_lon"].shape) = 1
    /\ NPoints(self) >= 1
    /\ \E i \in 1..NPoints(pre) :
          /\ ~StrictlyInside(Triples(pre)[i], args.bounds)
          /\ ~StrictlyOutside(Triples(pre)[i], args.bounds)
====
